---- MODULE Spec2Model ----
(***************************************************************************)
(* Feed ingestion pipeline of src/fetcher.py (class FeedFetcher):          *)
(* fetch_feeds_batch partitions the feed list into batches, gathers one    *)
(* fetch_single_feed coroutine per feed of a batch, and concatenates the   *)
(* lists they return; fetch_single_feed downloads one feed document,       *)
(* filters its entries by length and by content hash, and returns the      *)
(* accepted articles, or [] when anything raised.                          *)
(***************************************************************************)
EXTENDS Integers, Sequences, FiniteSets, TLC

(***************************************************************************)
(* Bounds of the model.                                                    *)
(***************************************************************************)
MaxFeeds == 3        \* feeds listed in feeds.yaml
MaxEntries == 2      \* entries of one feed document
MaxBatch == 2        \* batch_size argument
MaxCap == 2          \* CONFIG["processing"]["max_articles_per_feed"]
MaxCycles == 2       \* calls of fetch_feeds_batch on the same database
MinLength == 2       \* CONFIG["processing"]["min_article_length"]

(***************************************************************************)
(* Texts are sequences of characters.                                      *)
(***************************************************************************)
Chars == <<"a", "b", "c", "<", ">", "i", " ">>

Whitespace == {" "}

\* The position of a character in Chars (its byte value for the digest).
CharCode(ch) == CHOOSE n \in 1..Len(Chars) : Chars[n] = ch

RECURSIVE FirstClose(_, _)
\* The first position >= p of s holding ">", or 0 when there is none.
FirstClose(s, p) ==
    IF p > Len(s) THEN 0
    ELSE IF s[p] = ">" THEN p
    ELSE FirstClose(s, p + 1)

RECURSIVE StripTagsFrom(_, _)
\* re.sub(r'<[^>]+>', '', s) from position p on: a match starts at a "<"
\* that is followed by at least one character other than ">" and then by a
\* ">"; [^>]+ runs up to the first ">" after the "<".
StripTagsFrom(s, p) ==
    IF p > Len(s) THEN <<>>
    ELSE LET q == FirstClose(s, p + 1)
         IN  IF s[p] = "<" /\ q >= p + 2
             THEN StripTagsFrom(s, q + 1)
             ELSE <<s[p]>> \o StripTagsFrom(s, p + 1)

StripTags(s) == StripTagsFrom(s, 1)

RECURSIVE LStrip(_)
LStrip(s) ==
    IF s # <<>> /\ Head(s) \in Whitespace THEN LStrip(Tail(s)) ELSE s

RECURSIVE RStrip(_)
RStrip(s) ==
    IF s # <<>> /\ s[Len(s)] \in Whitespace
    THEN RStrip(SubSeq(s, 1, Len(s) - 1))
    ELSE s

\* str.strip()
Strip(s) == RStrip(LStrip(s))

(***************************************************************************)
(* Feed entries.  A field of an entry is present (hasattr is true) or not. *)
(* content is a list of content items, summary and description are texts.  *)
(* published_parsed is absent, a well-formed time tuple or a malformed one.*)
(***************************************************************************)
NoList == [present |-> FALSE, items |-> <<>>]
NoText == [present |-> FALSE, value |-> <<>>]
ContentList(items) == [present |-> TRUE, items |-> items]
TextField(s) == [present |-> TRUE, value |-> s]

Entry(c, s, d, p) ==
    [content |-> c, summary |-> s, description |-> d, published_parsed |-> p]

\* The entries a feed document of the model is made of.
EntryPool ==
    { Entry(NoList, TextField(<<"a", "b">>), NoText, "wellformed"),
      Entry(ContentList(<< <<"a", "b", "c">> >>), TextField(<<"a", "b">>),
            NoText, "malformed"),
      Entry(NoList, NoText, TextField(<<"<", "i", ">", "a", " ">>), "absent"),
      Entry(ContentList(<<>>), TextField(<<"a", "b">>), NoText, "absent") }

RECURSIVE SeqsUpTo(_, _)
\* The sequences over S of length at most n.
SeqsUpTo(S, n) ==
    IF n = 0 THEN {<<>>}
    ELSE LET shorter == SeqsUpTo(S, n - 1)
         IN  shorter \cup {Append(s, x) : s \in {t \in shorter : Len(t) = n - 1},
                                          x \in S}

\* The documents a feed URL may serve.
Documents == SeqsUpTo(EntryPool, MaxEntries)

(***************************************************************************)
(* extract_content, parse_date, the content hash.                          *)
(***************************************************************************)
Returned(v) == [raised |-> FALSE, value |-> v]
Raised == [raised |-> TRUE, value |-> <<>>]

\* The value extract_content's loop leaves in `content`: the first field
\* that is present decides; a present but empty content list is taken as it
\* is (a list, not a text).
FieldChosen(entry) ==
    IF entry.content.present
    THEN IF entry.content.items # <<>>
         THEN [kind |-> "text", value |-> entry.content.items[1]]
         ELSE [kind |-> "list", value |-> <<>>]
    ELSE IF entry.summary.present
    THEN [kind |-> "text", value |-> entry.summary.value]
    ELSE IF entry.description.present
    THEN [kind |-> "text", value |-> entry.description.value]
    ELSE [kind |-> "text", value |-> <<>>]

\* extract_content: re.sub raises TypeError on a value that is not a text.
ExtractContent(entry) ==
    LET chosen == FieldChosen(entry)
    IN  IF chosen.kind = "text"
        THEN Returned(Strip(StripTags(chosen.value)))
        ELSE Raised

\* Variant of ParseDate: the try statement left out, so that a malformed
\* time tuple raises.
ParseDateUnguarded(entry) ==
    IF entry.published_parsed = "wellformed" THEN Returned("parsed")
    ELSE IF entry.published_parsed = "malformed" THEN Raised
    ELSE Returned("now")

\* parse_date: the parsed time tuple, or datetime.now(); never raises.
ParseDate(entry) ==
    IF entry.published_parsed = "wellformed"
    THEN Returned("parsed")
    ELSE Returned("now")

RECURSIVE Digest(_, _)
Digest(s, acc) ==
    IF s = <<>> THEN acc
    ELSE Digest(Tail(s), acc * (Len(Chars) + 1) + CharCode(Head(s)))

\* hashlib.md5(content.encode()).hexdigest(): a deterministic digest of the
\* characters, free of collisions on the texts of the model.
Md5Hex(content) == Digest(content, 0)

(***************************************************************************)
(* NewsDatabase: the store of seen content hashes.                         *)
(***************************************************************************)
IsDuplicate(db, content_hash) == content_hash \in db

CacheArticle(db, content_hash) == db \cup {content_hash}

(***************************************************************************)
(* State.                                                                  *)
(***************************************************************************)
VARIABLES
    feeds,                  \* feeds_config['feeds']: the feed URLs, in order
    batch_size,             \* argument of fetch_feeds_batch
    max_articles_per_feed,  \* CONFIG["processing"]["max_articles_per_feed"]
    min_article_length,     \* CONFIG["processing"]["min_article_length"]
    db,                     \* self.db: the content hashes cached so far
    pc,                     \* where fetch_feeds_batch stands
    i,                      \* loop variable of fetch_feeds_batch
    articles,               \* the list fetch_feeds_batch builds and returns
    tasks,                  \* the fetch_single_feed coroutines of the batch
    batches,                \* history: the batches gathered in this run
    sleeps,                 \* history: per sleep, the number of batches gathered before it
    first_hashed,           \* history: per hash, the entry hashed first in this run
    db_start,               \* history: the database as this run found it
    completed,              \* history: the feeds of the batch, in the order their fetches ended
    requested,              \* history: the feeds requested in this run, in the order of the requests
    cycle                   \* history: the number of the run

vars == <<feeds, batch_size, max_articles_per_feed, min_article_length, db, pc,
          i, articles, tasks, batches, sleeps, first_hashed, db_start, completed,
          requested, cycle>>

config == <<feeds, batch_size, max_articles_per_feed, min_article_length>>

Min(a, b) == IF a < b THEN a ELSE b

\* Variant of Slice: the slice taken one feed too long.
SliceInclusive(s, from, size) == SubSeq(s, from + 1, Min(from + size + 1, Len(s)))

\* feeds[i:i+batch_size], i counted from 0
Slice(s, from, size) == SubSeq(s, from + 1, Min(from + size, Len(s)))

\* Variant of NextStart: the loop variable stepped by one.
NextStartByOne(from, size) == from + 1

\* Line 29: range(0, len(feeds), batch_size) steps the loop variable by
\* batch_size.
NextStart(from, size) == from + size

RECURSIVE Flatten(_)
Flatten(ss) == IF ss = <<>> THEN <<>> ELSE Head(ss) \o Flatten(Tail(ss))

(***************************************************************************)
(* fetch_single_feed: the loop over feed.entries.  The loop holds no       *)
(* await, so one call of EntryLoop is one uninterrupted run of it.         *)
(***************************************************************************)
Article(entry, content, feed_url, k) ==
    [content |-> content,
     url |-> <<feed_url, k>>,          \* entry.get('link'): names the entry
     published |-> ParseDate(entry).value,
     source |-> feed_url]

\* Variant of CapReached: the comparison written >.
CapReachedLate(fetched_count) == fetched_count > max_articles_per_feed

\* Line 57: the cap on the articles of one feed.
CapReached(fetched_count) == fetched_count >= max_articles_per_feed

\* Variant of TooShort: the comparison written <=.
TooShortOrExact(content) == Len(content) <= min_article_length

\* Line 61: the length filter.
TooShort(content) == Len(content) < min_article_length

\* Variant of DuplicateSkip: the duplicate filter left out.
DuplicateSkipNever(store, content_hash) == FALSE

\* Variant of DuplicateSkip: only the hashes cached by this run are looked up.
DuplicateSkipThisRun(store, content_hash) == content_hash \in store \ db_start

\* Line 66: the duplicate filter.
DuplicateSkip(store, content_hash) == IsDuplicate(store, content_hash)

\* Line 79: the hash of an accepted article is cached.
Record(store, content_hash) == CacheArticle(store, content_hash)

\* The first entry hashed with each hash, kept for the run.
NoteFirst(first, content_hash, feed_url, k) ==
    IF content_hash \in DOMAIN first THEN first
    ELSE [h \in DOMAIN first \cup {content_hash} |->
            IF h = content_hash THEN <<feed_url, k>> ELSE first[h]]

\* Variant of AwaitInLoop: an await in the body of the loop, before each
\* entry after the first one of a run of the loop.
AwaitBeforeNextEntry(k, from) == k > from

\* Lines 56-80 hold no await: the loop never hands control back to the event
\* loop before entry k, having run since entry `from`.
AwaitInLoop(k, from) == FALSE

\* The locals of the loop (articles, fetched_count, the index of the entry
\* evaluated last), the database, and how the loop stands.
LoopState(task, store, first) ==
    [articles |-> task.accepted, fetched_count |-> task.fetched_count,
     db |-> store, evaluated |-> task.evaluated, from |-> task.evaluated + 1,
     raised |-> FALSE, suspended |-> FALSE, first |-> first,
     calls |-> task.calls]

\* Line 66: is_duplicate is called with the hash; the call is noted.
Consult(st, content_hash, feed_url, k) ==
    [st EXCEPT !.first = NoteFirst(@, content_hash, feed_url, k),
               !.calls = Append(@, <<"is_duplicate", content_hash>>)]

\* Variant of ShortContinue: the hash of the short content is cached.
ShortContinueRecording(st, content_hash) ==
    [st EXCEPT !.db = Record(@, content_hash),
               !.calls = Append(@, <<"cache_article", content_hash>>)]

\* Line 63: continue; the locals and the database are as they were.
ShortContinue(st, content_hash) == st

\* Variant of DuplicateContinue: the skipped duplicate is counted.
DuplicateContinueCounting(st, content_hash) ==
    [st EXCEPT !.fetched_count = @ + 1]

\* Line 68: continue; the locals and the database are as they were.
DuplicateContinue(st, content_hash) == st

\* Lines 78-80: the article is appended, its hash is cached, the count of
\* the feed goes up by one.
Accept(st, article, content_hash) ==
    [st EXCEPT !.articles = Append(@, article),
               !.db = Record(@, content_hash),
               !.calls = Append(@, <<"cache_article", content_hash>>),
               !.fetched_count = @ + 1]

RECURSIVE EntryLoop(_, _, _, _)
\* Lines 56-80, from entry k on; st holds the locals and the database.
EntryLoop(entries, feed_url, k, st) ==
    IF k > Len(entries) \/ CapReached(st.fetched_count) THEN st
    ELSE IF AwaitInLoop(k, st.from) THEN [st EXCEPT !.suspended = TRUE]
    ELSE LET entry == entries[k]
             extracted == ExtractContent(entry)
             content == extracted.value
             content_hash == Md5Hex(content)
             seen == [st EXCEPT !.evaluated = k]
         IN  IF extracted.raised THEN [seen EXCEPT !.raised = TRUE]
             ELSE IF TooShort(content)
             THEN EntryLoop(entries, feed_url, k + 1,
                            ShortContinue(seen, content_hash))
             ELSE LET hashed == Consult(seen, content_hash, feed_url, k)
                  IN  IF DuplicateSkip(st.db, content_hash)
                      THEN EntryLoop(entries, feed_url, k + 1,
                                     DuplicateContinue(hashed, content_hash))
                      ELSE IF ParseDate(entry).raised
                      THEN [hashed EXCEPT !.raised = TRUE]
                      ELSE EntryLoop(entries, feed_url, k + 1,
                             Accept(hashed, Article(entry, content, feed_url, k),
                                    content_hash))

(***************************************************************************)
(* fetch_single_feed: the try statement.                                   *)
(***************************************************************************)
\* What a finished coroutine hands to gather: a list it returned, or the
\* exception it raised.
ReturnList(list, logged) == [kind |-> "list", list |-> list, logged |-> logged]
Propagate(exc) == [kind |-> "exception", list |-> <<>>, logged |-> exc]

\* The exception classes that derive from aiohttp.ClientError.
ClientErrors == {"ClientConnectorError", "ClientResponseError", "ClientPayloadError"}

\* Variant of ExceptHandlers: the handler of lines 88-90 left out.
ExceptClientErrorOnly(exc) ==
    IF exc \in ClientErrors THEN ReturnList(<<>>, "http_error")
    ELSE Propagate(exc)

\* Lines 85-90: both handlers return [].
ExceptHandlers(exc) ==
    IF exc \in ClientErrors THEN ReturnList(<<>>, "http_error")
    ELSE ReturnList(<<>>, "general_error")

\* Variant of RaiseForStatus: only the 5xx statuses raise.
RaiseForStatusServerOnly(status) == status >= 500

\* Line 49: raise_for_status raises for the statuses from 400 on.
RaiseForStatus(status) == status >= 400

\* The statuses a server of the model answers with: a 2xx, a 3xx that
\* aiohttp does not follow as a redirect and that carries a body, a 4xx.
Statuses == {200, 300, 404}

\* What `async with session.get(...)` can end with.
GetFaults == {"ClientConnectorError", "TimeoutError"}

\* What `await response.text()` can end with; the timeout of line 48 bounds
\* the reading of the body as well.
TextFaults == {"ClientPayloadError", "TimeoutError"}

NewTask(feed_url) ==
    [feed_url |-> feed_url, pc |-> "created", status |-> 0, doc |-> <<>>,
     kind |-> "none", list |-> <<>>, logged |-> "none",
     accepted |-> <<>>, fetched_count |-> 0, evaluated |-> 0, calls |-> <<>>]

\* The coroutine is over: the response is released, the outcome is kept.
Finish(task, outcome) ==
    [task EXCEPT !.pc = "done", !.status = 0, !.kind = outcome.kind, !.list = outcome.list,
                 !.logged = outcome.logged]

\* The order in which the fetches of the batch end.
Ended(order, task) ==
    IF task.pc = "done" THEN Append(order, task.feed_url) ELSE order

(***************************************************************************)
(* Actions of fetch_feeds_batch and of its coroutines.                     *)
(***************************************************************************)
Init ==
    /\ \E n \in 0..MaxFeeds : feeds = [k \in 1..n |-> k]
    /\ batch_size \in 1..MaxBatch
    /\ max_articles_per_feed \in 0..MaxCap
    /\ min_article_length = MinLength
    /\ db = {}
    /\ pc = "loop"
    /\ i = 0
    /\ articles = <<>>
    /\ tasks = <<>>
    /\ batches = <<>>
    /\ sleeps = <<>>
    /\ first_hashed = <<>>
    /\ db_start = {}
    /\ completed = <<>>
    /\ requested = <<>>
    /\ cycle = 1

\* Lines 29-33: the next batch is sliced and its coroutines are handed to gather.
StartBatch ==
    /\ pc = "loop"
    /\ i < Len(feeds)
    /\ LET batch == Slice(feeds, i, batch_size)
       IN  /\ tasks' = [t \in 1..Len(batch) |-> NewTask(batch[t])]
           /\ batches' = Append(batches, batch)
    /\ completed' = <<>>
    /\ pc' = "gather"
    /\ UNCHANGED <<config, db, i, articles, sleeps, first_hashed, db_start, requested, cycle>>

\* gather starts the coroutines in the order given; each runs to its first
\* await, the request of line 48.
TaskStart(t) ==
    /\ pc = "gather"
    /\ tasks[t].pc = "created"
    /\ \A u \in 1..(t - 1) : tasks[u].pc # "created"
    /\ tasks' = [tasks EXCEPT ![t].pc = "get"]
    /\ requested' = Append(requested, tasks[t].feed_url)
    /\ UNCHANGED <<config, db, pc, i, articles, batches, sleeps, first_hashed, db_start,
                   completed, cycle>>

\* Lines 48-50: the request fails, or answers with a status; an accepted
\* status leaves the coroutine awaiting the body, a status that makes
\* raise_for_status raise stays in the error that line 86 logs.
GetResponds(t) ==
    /\ pc = "gather"
    /\ tasks[t].pc = "get"
    /\ \/ \E exc \in GetFaults :
            tasks' = [tasks EXCEPT ![t] = Finish(@, ExceptHandlers(exc))]
       \/ \E status \in Statuses :
            tasks' = [tasks EXCEPT ![t] =
                IF RaiseForStatus(status)
                THEN [Finish(@, ExceptHandlers("ClientResponseError"))
                        EXCEPT !.status = status]
                ELSE [@ EXCEPT !.status = status, !.pc = "text"]]
    /\ completed' = Ended(completed, tasks'[t])
    /\ UNCHANGED <<config, db, pc, i, articles, batches, sleeps, first_hashed, db_start, requested, cycle>>

\* Line 50 fails while the body is read.
BodyFails(t) ==
    /\ pc = "gather"
    /\ tasks[t].pc = "text"
    /\ \E exc \in TextFaults :
            tasks' = [tasks EXCEPT ![t] = Finish(@, ExceptHandlers(exc))]
    /\ completed' = Ended(completed, tasks'[t])
    /\ UNCHANGED <<config, db, pc, i, articles, batches, sleeps, first_hashed, db_start, requested, cycle>>

\* Lines 50-83: the coroutine resumes with the body (the awaits of line 50
\* and of leaving the async with block are over), feedparser parses it into
\* entries, and the loop over them runs up to its next await or to its
\* return statement.
BodyArrives(t) ==
    /\ pc = "gather"
    /\ tasks[t].pc \in {"text", "loop"}
    /\ \E doc \in Documents :
         LET task == tasks[t]
             entries == IF task.pc = "text" THEN doc ELSE task.doc
             st == EntryLoop(entries, task.feed_url, task.evaluated + 1,
                             LoopState(task, db, first_hashed))
             locals == [task EXCEPT !.doc = entries, !.accepted = st.articles,
                                    !.fetched_count = st.fetched_count,
                                    !.evaluated = st.evaluated,
                                    !.calls = st.calls]
         IN  /\ task.pc = "loop" => doc = <<>>
             /\ tasks' = [tasks EXCEPT ![t] =
                    IF st.suspended THEN [locals EXCEPT !.pc = "loop"]
                    ELSE IF st.raised THEN Finish(locals, ExceptHandlers("TypeError"))
                    ELSE Finish(locals, ReturnList(st.articles, "success"))]
             /\ db' = st.db
             /\ first_hashed' = st.first
    /\ completed' = Ended(completed, tasks'[t])
    /\ UNCHANGED <<config, pc, i, articles, batches, sleeps, db_start, requested, cycle>>

\* The index in the batch of the task of a feed.
TaskOf(results, feed_url) ==
    CHOOSE t \in 1..Len(results) : results[t].feed_url = feed_url

\* Variant of Lists: the results taken in the order the fetches ended.
ListsAsCompleted(results) ==
    Flatten([k \in 1..Len(completed) |->
                LET r == results[TaskOf(results, completed[k])]
                IN  IF r.kind = "list" THEN r.list ELSE <<>>])

\* Variant of Lists: nothing is kept of a batch in which a fetch failed.
ListsAllOrNothing(results) ==
    IF \E t \in 1..Len(results) : results[t].logged # "success" THEN <<>>
    ELSE Flatten([t \in 1..Len(results) |-> results[t].list])

\* The lists among the results of gather, in the order of the batch.
Lists(results) ==
    Flatten([t \in 1..Len(results) |->
                IF results[t].kind = "list" THEN results[t].list ELSE <<>>])

\* Variant of GatherOver: a fetch that timed out is waited for without end.
GatherOverUnlessTimedOut(results) ==
    \A t \in 1..Len(results) :
       results[t].pc = "done" /\ results[t].logged # "general_error"

\* Variant of GatherOver: the wait ends with the first fetch that ends.
GatherOverAtFirst(results) == \E t \in 1..Len(results) : results[t].pc = "done"

\* Line 33: gather is over when every coroutine handed to it is.
GatherOver(results) == \A t \in 1..Len(results) : results[t].pc = "done"

\* Variant of SleepNeeded: the comparison written <=.
SleepUnlessPast(from, size, n) == from + size <= n

\* Line 39: a batch is left to fetch.
SleepNeeded(from, size, n) == from + size < n

\* Lines 33-40: every coroutine of the batch is done; the lists are appended
\* in batch order, and the run sleeps when feeds remain.
GatherDone ==
    /\ pc = "gather"
    /\ GatherOver(tasks)
    /\ articles' = articles \o Lists(tasks)
    /\ IF SleepNeeded(i, batch_size, Len(feeds))
       THEN /\ pc' = "sleep"
            /\ i' = i
       ELSE /\ pc' = "loop"
            /\ i' = NextStart(i, batch_size)
    /\ UNCHANGED <<config, db, tasks, batches, sleeps, first_hashed, db_start,
                   completed, requested, cycle>>

\* Line 40: asyncio.sleep(0.5) is over.
SleepDone ==
    /\ pc = "sleep"
    /\ sleeps' = Append(sleeps, Len(batches))
    /\ i' = NextStart(i, batch_size)
    /\ pc' = "loop"
    /\ UNCHANGED <<config, db, articles, tasks, batches, first_hashed, db_start,
                   completed, requested, cycle>>

\* Line 42: the loop is over.
ReturnArticles ==
    /\ pc = "loop"
    /\ i >= Len(feeds)
    /\ pc' = "done"
    /\ UNCHANGED <<config, db, i, articles, tasks, batches, sleeps, first_hashed,
                   db_start, completed, requested, cycle>>

\* The next scheduled call of fetch_feeds_batch, on the same database.
NextCycle ==
    /\ pc = "done"
    /\ cycle < MaxCycles
    /\ cycle' = cycle + 1
    /\ pc' = "loop"
    /\ i' = 0
    /\ articles' = <<>>
    /\ tasks' = <<>>
    /\ batches' = <<>>
    /\ sleeps' = <<>>
    /\ first_hashed' = <<>>
    /\ db_start' = db
    /\ completed' = <<>>
    /\ requested' = <<>>
    /\ UNCHANGED <<config, db>>

Next ==
    \/ StartBatch
    \/ \E t \in 1..Len(tasks) : TaskStart(t)
    \/ \E t \in 1..Len(tasks) : GetResponds(t)
    \/ \E t \in 1..Len(tasks) : BodyFails(t)
    \/ \E t \in 1..Len(tasks) : BodyArrives(t)
    \/ GatherDone
    \/ SleepDone
    \/ ReturnArticles
    \/ NextCycle

Spec == Init /\ [][Next]_vars

\* One step of the fetch of task t of the batch: the answer to its request,
\* or the end of the reading of its body.
Fetching(t) ==
    /\ t \in 1..Len(tasks)
    /\ GetResponds(t) \/ BodyFails(t) \/ BodyArrives(t)

\* The event loop runs every coroutine that is ready (the coordinator after
\* a gather or a sleep, a coroutine handed to gather), and every fetch ends:
\* the server answers, or the timeout of line 48 fires.  When the next run
\* is started is left to the scheduler.
FairSpec ==
    /\ Spec
    /\ WF_vars(StartBatch)
    /\ WF_vars(GatherDone)
    /\ WF_vars(SleepDone)
    /\ WF_vars(ReturnArticles)
    /\ \A t \in 1..MaxBatch :
          /\ WF_vars(t \in 1..Len(tasks) /\ TaskStart(t))
          /\ WF_vars(Fetching(t))

(***************************************************************************)
(* What the properties below speak of.                                     *)
(***************************************************************************)
\* The articles accepted into the output so far: the list built by
\* fetch_feeds_batch, and during a gather the lists already returned to it.
Output == articles \o (IF pc = "gather" THEN Lists(tasks) ELSE <<>>)

\* The tasks whose loop over the entries has run.
Parsed == {t \in 1..Len(tasks) : tasks[t].pc = "done" /\ tasks[t].evaluated > 0}

\* The entries of the pool by what extract_content makes of them.
ExactEntry == CHOOSE e \in EntryPool :
    ~ExtractContent(e).raised /\ Len(ExtractContent(e).value) = MinLength
ShortEntry == CHOOSE e \in EntryPool :
    ~ExtractContent(e).raised /\ Len(ExtractContent(e).value) < MinLength
FaultyEntry == CHOOSE e \in EntryPool : ExtractContent(e).raised

\* Entry k of the document is accepted by the task.
AcceptedAt(task, k) ==
    \E a \in 1..Len(task.accepted) : task.accepted[a].url = <<task.feed_url, k>>

\* A first run over two feeds fetched in one batch, each serving one and the
\* same entry.
TwoSourcesSameEntry ==
    /\ pc = "done" /\ cycle = 1
    /\ Len(feeds) = 2 /\ batch_size = 2 /\ max_articles_per_feed >= 1
    /\ \A t \in 1..Len(tasks) :
          tasks[t].logged = "success" /\ tasks[t].doc = <<ExactEntry>>

(***************************************************************************)
(* C1.  Two entries with identical extracted content, in one source, in    *)
(* two sources of a batch or in sources of two batches: at most one is in  *)
(* the output of the run, and it is the one that was hashed first, under   *)
(* every interleaving of the fetches.  Two sources of one batch that each  *)
(* hold one entry with the same content give one article in total.         *)
(***************************************************************************)
C1_IdenticalContentAcceptedOnce ==
    /\ \A a, b \in 1..Len(Output) :
          Output[a].content = Output[b].content => a = b
    /\ \A a \in 1..Len(Output) :
          LET h == Md5Hex(Output[a].content)
          IN  h \in DOMAIN first_hashed /\ first_hashed[h] = Output[a].url
    /\ TwoSourcesSameEntry => Len(articles) = 1

\* Both fetches of a batch read the same entry; the second to end returned
\* nothing.
C1_Witness ==
    /\ TwoSourcesSameEntry
    /\ completed = <<2, 1>>
    /\ tasks[1].list = <<>> /\ Len(tasks[2].list) = 1
    /\ Len(articles) = 1

(***************************************************************************)
(* C2.  Every article of the output has a tag-stripped content of at least *)
(* min_article_length characters: an entry whose extracted content is      *)
(* shorter is never accepted, and an entry whose content has exactly that  *)
(* length passes the length filter (it reaches the hashing of line 65).    *)
(***************************************************************************)
C2_OutputLongEnough ==
    /\ \A a \in 1..Len(Output) : Len(Output[a].content) >= min_article_length
    /\ \A t \in Parsed : \A k \in 1..tasks[t].evaluated :
          LET extracted == ExtractContent(tasks[t].doc[k])
          IN  \/ extracted.raised
              \/ /\ Len(extracted.value) < min_article_length
                 /\ ~AcceptedAt(tasks[t], k)
              \/ /\ Len(extracted.value) >= min_article_length
                 /\ Md5Hex(extracted.value) \in DOMAIN first_hashed
                 /\ \A a \in 1..Len(tasks[t].accepted) :
                       tasks[t].accepted[a].url = <<tasks[t].feed_url, k>>
                          => tasks[t].accepted[a].content = extracted.value

\* A document of a too short entry and an entry of exactly the minimum
\* length: one article, the first entry skipped.
C2_Witness ==
    \E t \in Parsed :
        /\ tasks[t].doc = <<ShortEntry, ExactEntry>>
        /\ Len(tasks[t].list) = 1
        /\ tasks[t].list[1].url = <<tasks[t].feed_url, 2>>
        /\ Len(tasks[t].list[1].content) = min_article_length
        /\ pc = "done" /\ Len(articles) >= 1

\* The indices of the entries of the document that qualify against the
\* store as it is when the loop starts, in document order.
QualifyingEntries(doc, store) ==
    LET content(k) == ExtractContent(doc[k])
        qualifies(k) ==
            /\ ~content(k).raised
            /\ Len(content(k).value) >= min_article_length
            /\ Md5Hex(content(k).value) \notin store
            /\ \A j \in 1..(k - 1) : content(j) # content(k)
    IN  SelectSeq([k \in 1..Len(doc) |-> k], qualifies)

\* The entries the articles of a list come from.
Urls(list) == [a \in 1..Len(list) |-> list[a].url]

(***************************************************************************)
(* C3.  One call of fetch_single_feed accepts at most                      *)
(* max_articles_per_feed articles, and when its document holds at least    *)
(* that many qualifying entries (long enough, not a duplicate) it returns  *)
(* exactly the first max_articles_per_feed of them, in document order.     *)
(***************************************************************************)
C3_FirstQualifyingUpToCap ==
    [][\A t \in DOMAIN tasks :
          (pc = "gather" /\ tasks[t].pc = "text" /\ tasks'[t].pc = "done") =>
             LET qualifying == QualifyingEntries(tasks'[t].doc, db)
                 cap == max_articles_per_feed
             IN  /\ Len(tasks'[t].list) <= cap
                 /\ Len(qualifying) >= cap =>
                       Urls(tasks'[t].list) =
                          [a \in 1..cap |-> <<tasks[t].feed_url, qualifying[a]>>]
      ]_vars

\* Entry u comes before entry v: an earlier feed, or the same feed and an
\* earlier entry.
Before(u, v) == u[1] < v[1] \/ (u[1] = v[1] /\ u[2] < v[2])

(***************************************************************************)
(* C4.  The output lists the articles in the order of the feed list, and   *)
(* the articles of one feed in the order of its entries, whatever the      *)
(* order in which the fetches of a batch end.                              *)
(***************************************************************************)
C4_OutputInSourceOrder ==
    /\ \A a, b \in 1..Len(Output) :
          a < b => Before(Output[a].url, Output[b].url)
    /\ \A a \in 1..Len(Output) :
          /\ Output[a].url[1] \in 1..Len(feeds)
          /\ Output[a].source = feeds[Output[a].url[1]]
    /\ \A t \in Parsed : \A a \in 1..Len(tasks[t].list) :
          LET article == tasks[t].list[a]
          IN  /\ article.url[1] = tasks[t].feed_url
              /\ article.url[2] \in 1..Len(tasks[t].doc)
              /\ article.content = ExtractContent(tasks[t].doc[article.url[2]]).value

\* The second fetch of the batch ended before the first; the articles of
\* the first feed still come first.
C4_Witness ==
    /\ pc = "sleep"
    /\ Len(tasks) = 2 /\ completed = <<tasks[2].feed_url, tasks[1].feed_url>>
    /\ tasks[1].list # <<>> /\ tasks[2].list # <<>>
    /\ articles = tasks[1].list \o tasks[2].list

\* The lists returned by the fetches of the batch, in batch order.
Returns(results) == Flatten([t \in 1..Len(results) |-> results[t].list])

EndsWith(list, tail) ==
    /\ Len(list) >= Len(tail)
    /\ SubSeq(list, Len(list) - Len(tail) + 1, Len(list)) = tail

Ceil(n, d) == (n + d - 1) \div d

(***************************************************************************)
(* C6.  The feeds are gathered as ceil(n / batch_size) contiguous batches  *)
(* in the order of the list, each of batch_size feeds except possibly the  *)
(* last, and the run sleeps once between two consecutive batches and not   *)
(* after the last (3 feeds, batch_size 2: batches of 2 and 1, one sleep).  *)
(***************************************************************************)
C6_BatchesAndSleeps ==
    LET gathered == Flatten(batches)
        n == Len(feeds)
    IN  /\ Len(gathered) <= n /\ gathered = SubSeq(feeds, 1, Len(gathered))
        /\ \A k \in 1..Len(batches) :
              IF k < Len(batches) \/ Len(gathered) < n
              THEN Len(batches[k]) = batch_size
              ELSE Len(batches[k]) \in 1..batch_size
        /\ sleeps = [k \in 1..Len(sleeps) |-> k]
        /\ IF pc = "loop" /\ i < n
           THEN Len(sleeps) = Len(batches)
           ELSE Len(sleeps) = IF batches = <<>> THEN 0 ELSE Len(batches) - 1
        /\ pc = "done" => /\ gathered = feeds
                          /\ Len(batches) = Ceil(n, batch_size)

\* Three feeds, batch_size 2: batches of 2 and 1 and one sleep, after the
\* first batch.
C6_Witness ==
    /\ pc = "done" /\ Len(feeds) = 3 /\ batch_size = 2
    /\ batches = << <<feeds[1], feeds[2]>>, <<feeds[3]>> >>
    /\ sleeps = <<1>>

(***************************************************************************)
(* C7.  fetch_single_feed never raises to gather: whatever fails, the      *)
(* request, the reading of the body or the processing of an entry, the     *)
(* call returns a list, and the list is empty, also when entries of the    *)
(* document had been accepted before the fault.                            *)
(***************************************************************************)
C7_FaultsReturnEmptyList ==
    \A t \in 1..Len(tasks) :
        tasks[t].pc = "done" =>
           /\ tasks[t].kind = "list"
           /\ tasks[t].logged \in {"success", "http_error", "general_error"}
           /\ tasks[t].logged # "success" => tasks[t].list = <<>>

\* The second entry of a document raised after the first was accepted.
C7_Witness ==
    \E t \in Parsed :
        /\ tasks[t].logged = "general_error"
        /\ tasks[t].doc = <<ExactEntry, FaultyEntry>>
        /\ Len(tasks[t].accepted) = 1
        /\ tasks[t].kind = "list" /\ tasks[t].list = <<>>

\* The content hashes of the articles of a list.
Hashes(list) == {Md5Hex(list[a].content) : a \in 1..Len(list)}

(***************************************************************************)
(* C8.  The store of seen hashes outlives a run: nothing is removed from   *)
(* it, an entry whose hash was in the store when the run started is never  *)
(* in the output of the run, and the hash of an article was not in the     *)
(* store when the loop that accepted it started.                           *)
(***************************************************************************)
C8_SeenHashesPersist ==
    [][/\ db \subseteq db'
       /\ db_start' \subseteq db'
       /\ Hashes(Output') \cap db_start' = {}
       /\ \A t \in DOMAIN tasks :
             (pc = "gather" /\ tasks[t].pc = "text" /\ tasks'[t].pc = "done") =>
                /\ Hashes(tasks'[t].accepted) \cap db = {}
                /\ Cardinality(Hashes(tasks'[t].accepted)) = Len(tasks'[t].accepted)
                /\ Hashes(tasks'[t].accepted) \subseteq db'
      ]_vars

\* In a second run, a feed serves two entries; the hash of the first was
\* cached by the first run and only the second is accepted.
C8_Witness ==
    /\ cycle = 2 /\ pc = "done"
    /\ \E t \in Parsed :
          /\ tasks[t].logged = "success" /\ tasks[t].evaluated = 2
          /\ Md5Hex(ExtractContent(tasks[t].doc[1]).value) \in db_start
          /\ Urls(tasks[t].list) = << <<tasks[t].feed_url, 2>> >>
          /\ articles = tasks[t].list

\* The fetches of the batch that have not ended.
InFlight == {t \in 1..Len(tasks) : tasks[t].pc # "done"}

(***************************************************************************)
(* C9.  Batches are separated by a barrier: outside the gather of a batch  *)
(* no fetch is in flight, so the fetches in flight at any time are fetches *)
(* of the batch gathered last, and the next batch starts only when every   *)
(* fetch of this one has ended.                                            *)
(***************************************************************************)
C9_BatchBarrier ==
    /\ pc # "gather" => InFlight = {}
    /\ tasks # <<>> =>
          /\ batches # <<>>
          /\ [t \in 1..Len(tasks) |-> tasks[t].feed_url] = batches[Len(batches)]
    /\ \A k \in 1..Len(completed) :
          \E t \in 1..Len(tasks) :
              tasks[t].pc = "done" /\ tasks[t].feed_url = completed[k]
    /\ Len(completed) = Len(tasks) - Cardinality(InFlight)

\* The second batch is in flight, after the two fetches of the first ended
\* and the run slept.
C9_Witness ==
    /\ pc = "gather" /\ Len(batches) = 2 /\ sleeps = <<1>>
    /\ Len(batches[1]) = 2
    /\ \E t \in InFlight : tasks[t].pc = "text"

(***************************************************************************)
(* C10.  A fetch is suspended only at the request and at the reading of    *)
(* the body: the loop over the entries of a document runs from its first   *)
(* entry to its return in one step, so a fetch that is not over has        *)
(* evaluated no entry, and no other fetch runs between the duplicate check *)
(* of an entry and the caching of its hash.                                *)
(***************************************************************************)
C10_EntriesProcessedInOneStep ==
    [][/\ \A t \in 1..Len(tasks') :
             /\ tasks'[t].pc \in {"created", "get", "text", "done"}
             /\ tasks'[t].pc # "done" =>
                   /\ tasks'[t].evaluated = 0
                   /\ tasks'[t].accepted = <<>>
                   /\ tasks'[t].doc = <<>>
       /\ db' # db =>
             /\ pc = "gather" /\ pc' = "gather"
             /\ \E t \in 1..Len(tasks) :
                   /\ tasks[t].pc = "text" /\ tasks'[t].pc = "done"
                   /\ db' = db \cup Hashes(tasks'[t].accepted)
                   /\ \A u \in 1..Len(tasks) : u # t => tasks'[u] = tasks[u]
      ]_vars

\* One fetch has run its loop over two entries and accepted both while the
\* other fetch of the batch is suspended at the reading of its body.
C10_Witness ==
    /\ pc = "gather" /\ Len(tasks) = 2
    /\ \E t, u \in 1..Len(tasks) :
          /\ tasks[t].pc = "done" /\ tasks[t].evaluated = 2
          /\ Len(tasks[t].accepted) = 2
          /\ tasks[u].pc = "text"

\* The positions of the calls of one method in the calls a fetch made.
CallsTo(calls, method) == {p \in 1..Len(calls) : calls[p][1] = method}

\* The entries a fetch evaluated whose content came out long enough.
LongEvaluated(task) ==
    {k \in 1..task.evaluated :
        /\ ~ExtractContent(task.doc[k]).raised
        /\ ~TooShort(ExtractContent(task.doc[k]).value)}

\* The hash of entry k of the document of a fetch.
HashAt(task, k) == Md5Hex(ExtractContent(task.doc[k]).value)

(***************************************************************************)
(* C11.  For every entry a fetch processes, is_duplicate is consulted      *)
(* before cache_article; a hash is cached exactly once, and only for an    *)
(* entry that is accepted; an entry rejected as too short or as a          *)
(* duplicate leaves the store, the list of the fetch and its count as they *)
(* were.                                                                   *)
(***************************************************************************)
C11_RecordOnlyOnAcceptance ==
    [][\A t \in DOMAIN tasks :
          (pc = "gather" /\ tasks[t].pc = "text" /\ tasks'[t].pc = "done") =>
             LET task == tasks'[t]
                 calls == task.calls
                 cached == CallsTo(calls, "cache_article")
             IN  /\ \A p \in cached :
                       p > 1 /\ calls[p - 1] = <<"is_duplicate", calls[p][2]>>
                 /\ \A p, q \in cached : calls[p][2] = calls[q][2] => p = q
                 /\ Cardinality(cached) = Len(task.accepted)
                 /\ {calls[p][2] : p \in cached} = Hashes(task.accepted)
                 /\ Cardinality(CallsTo(calls, "is_duplicate"))
                        = Cardinality(LongEvaluated(task))
                 /\ db' = db \cup Hashes(task.accepted)
                 /\ task.fetched_count = Len(task.accepted)
                 /\ \A k \in 1..task.evaluated :
                       ~AcceptedAt(task, k) /\ ~ExtractContent(task.doc[k]).raised =>
                          \/ HashAt(task, k) \notin db'
                          \/ HashAt(task, k) \in db
                          \/ \E j \in 1..(k - 1) :
                                AcceptedAt(task, j) /\ HashAt(task, j) = HashAt(task, k)
      ]_vars

\* A fetch evaluated a too short entry and then accepted an entry: one
\* lookup and one caching, both of the accepted entry.
C11_Witness ==
    \E t \in Parsed :
       /\ tasks[t].doc = <<ShortEntry, ExactEntry>>
       /\ tasks[t].evaluated = 2
       /\ Len(tasks[t].accepted) = 1
       /\ AcceptedAt(tasks[t], 2)
       /\ tasks[t].calls = <<<<"is_duplicate", HashAt(tasks[t], 2)>>,
                             <<"cache_article", HashAt(tasks[t], 2)>>>>
       /\ db = {HashAt(tasks[t], 2)}

(***************************************************************************)
(* C12.  Once the count of a fetch has reached max_articles_per_feed no    *)
(* later entry of the document is evaluated: its content is neither looked *)
(* up in the store nor cached, so an entry beyond the cap stays unseen and *)
(* is still accepted when a later fetch meets it.                          *)
(***************************************************************************)
C12_NothingEvaluatedBeyondCap ==
    [][\A t \in DOMAIN tasks :
          (pc = "gather" /\ tasks[t].pc = "text" /\ tasks'[t].pc = "done") =>
             LET task == tasks'[t]
                 cap == max_articles_per_feed
                 beyond == (task.evaluated + 1)..Len(task.doc)
             IN  /\ Len(task.accepted) >= cap =>
                       task.evaluated = IF cap = 0 THEN 0
                                        ELSE task.accepted[cap].url[2]
                 /\ Cardinality(CallsTo(task.calls, "is_duplicate"))
                        <= task.evaluated
                 /\ \A p \in 1..Len(task.calls) :
                       \E k \in 1..task.evaluated : task.calls[p][2] = HashAt(task, k)
                 /\ \A k \in beyond :
                       ~ExtractContent(task.doc[k]).raised =>
                          /\ ~AcceptedAt(task, k)
                          /\ HashAt(task, k) \in db' =>
                                \/ HashAt(task, k) \in db
                                \/ \E j \in 1..task.evaluated :
                                      HashAt(task, j) = HashAt(task, k)
      ]_vars

\* The cap is one.  A fetch stopped after the first entry of its document;
\* the second entry, never evaluated there, is accepted by the next fetch of
\* the batch.
C12_Witness ==
    /\ max_articles_per_feed = 1
    /\ \E t, u \in Parsed :
          /\ t < u
          /\ Len(tasks[t].doc) = 2
          /\ tasks[t].evaluated = 1
          /\ AcceptedAt(tasks[t], 1)
          /\ tasks[u].doc = <<tasks[t].doc[2]>>
          /\ AcceptedAt(tasks[u], 1)
          /\ HashAt(tasks[u], 1) \in db

\* The entries of a document that are skipped: too short, or a duplicate.
SkippedEntries(doc, store) ==
    {k \in 1..Len(doc) :
        /\ ~ExtractContent(doc[k]).raised
        /\ \A a \in 1..Len(QualifyingEntries(doc, store)) :
              QualifyingEntries(doc, store)[a] # k}

\* Every entry of the document is either skipped or qualifying.
SkippedOrQualifying(doc) ==
    \A k \in 1..Len(doc) : ~ExtractContent(doc[k]).raised

(***************************************************************************)
(* C13.  Entries skipped as too short or as duplicates do not count        *)
(* against the cap: the count of a fetch goes up only when an entry is     *)
(* accepted, so a document of skipped and qualifying entries yields as     *)
(* many articles as it has qualifying entries, up to max_articles_per_feed.*)
(***************************************************************************)
C13_SkippedEntriesNotCounted ==
    [][\A t \in DOMAIN tasks :
          (pc = "gather" /\ tasks[t].pc = "text" /\ tasks'[t].pc = "done") =>
             LET task == tasks'[t]
                 cap == max_articles_per_feed
                 qualifying == QualifyingEntries(task.doc, db)
                 skipped == SkippedEntries(task.doc, db)
             IN  /\ task.fetched_count
                       = Cardinality({k \in 1..task.evaluated : AcceptedAt(task, k)})
                 /\ \A k \in skipped : ~AcceptedAt(task, k)
                 /\ SkippedOrQualifying(task.doc) =>
                       /\ task.list = task.accepted
                       /\ Len(task.list) = Min(cap, Len(qualifying))
                       /\ task.fetched_count
                             = task.evaluated
                               - Cardinality(skipped \cap 1..task.evaluated)
      ]_vars

\* The cap is one; the document holds a skipped entry and then a qualifying
\* one, and the fetch returns one article, made from the second entry.
C13_Witness ==
    /\ max_articles_per_feed = 1
    /\ \E t \in Parsed :
          /\ Len(tasks[t].doc) = 2
          /\ SkippedOrQualifying(tasks[t].doc)
          /\ tasks[t].evaluated = 2
          /\ tasks[t].fetched_count = 1
          /\ Urls(tasks[t].list) = <<<<tasks[t].feed_url, 2>>>>

(***************************************************************************)
(* C14 as stated.  Every response whose status is not a 2xx one (1xx, 3xx, *)
(* 4xx, 5xx alike) is a failed fetch: its body is not parsed, no entry is  *)
(* evaluated or cached, and the fetch returns the empty list.              *)
(***************************************************************************)
C14_NonSuccessStatusFails ==
    [][\A t \in DOMAIN tasks :
          (/\ pc = "gather"
           /\ tasks[t].pc = "text"
           /\ tasks[t].status \notin 200..299) =>
             /\ tasks'[t].evaluated = 0
             /\ tasks'[t].accepted = <<>>
             /\ tasks'[t].list = <<>>
             /\ db' = db
      ]_vars

(***************************************************************************)
(* C14.  Every response whose status is 400 or above (4xx, 5xx) is a       *)
(* failed fetch: its body is not read or parsed, no entry is evaluated or  *)
(* cached, and the fetch returns the empty list; the body is read only of  *)
(* a response whose status is below 400.                                   *)
(***************************************************************************)
C14_ErrorStatusFails ==
    \A t \in 1..Len(tasks) :
       /\ tasks[t].status >= 400 =>
             /\ tasks[t].pc = "done"
             /\ tasks[t].kind = "list" /\ tasks[t].list = <<>>
             /\ tasks[t].logged = "http_error"
             /\ tasks[t].doc = <<>> /\ tasks[t].evaluated = 0
             /\ tasks[t].calls = <<>> /\ tasks[t].accepted = <<>>
       /\ tasks[t].pc = "text" =>
             tasks[t].status \in Statuses /\ tasks[t].status < 400

\* A request was answered with 404: the fetch is over, with the empty list,
\* and the store is as the run found it.
C14_Witness ==
    /\ pc = "gather"
    /\ db = db_start
    /\ \E t \in 1..Len(tasks) :
          /\ tasks[t].status = 404
          /\ tasks[t].pc = "done"
          /\ tasks[t].list = <<>>

(***************************************************************************)
(* C15.  Each feed of the list is requested exactly once per run of        *)
(* fetch_feeds_batch, for every batch_size >= 1 and whether its fetch      *)
(* succeeds or fails: no feed is requested again after a failure, none is  *)
(* left out, none is requested twice.                                      *)
(***************************************************************************)
C15_EachFeedFetchedOnce ==
    /\ Len(requested) <= Len(feeds)
    /\ requested = SubSeq(feeds, 1, Len(requested))
    /\ \A p, q \in 1..Len(requested) : requested[p] = requested[q] => p = q
    /\ \A t \in 1..Len(tasks) :
          tasks[t].pc # "created" =>
             \E p \in 1..Len(requested) : requested[p] = tasks[t].feed_url
    /\ pc = "done" =>
          /\ requested = feeds
          /\ Flatten(batches) = feeds

\* A run over three feeds in batches of two is over; every feed was
\* requested once, and the fetch of the last one failed.
C15_Witness ==
    /\ pc = "done"
    /\ Len(feeds) = 3 /\ batch_size = 2
    /\ Len(requested) = 3
    /\ Len(tasks) = 1 /\ tasks[1].feed_url = feeds[3]
    /\ tasks[1].logged = "http_error"

\* The fetches of the batch that ended by the timeout of line 48, or by a
\* fault outside aiohttp, before any entry was evaluated.
TimedOut ==
    {t \in 1..Len(tasks) :
        /\ tasks[t].pc = "done"
        /\ tasks[t].logged = "general_error"
        /\ tasks[t].evaluated = 0}

(***************************************************************************)
(* C16.  When every fetch ends (by an answer or by its own timeout), every *)
(* run of fetch_feeds_batch returns.  A fetch that ends by its timeout     *)
(* neither cancels nor fails the other fetches of its batch: they run to   *)
(* their own end and their articles are in the output, and the batch is    *)
(* over only after every fetch of it, the timed out one included, ended.   *)
(***************************************************************************)
C16_EveryRunReturns ==
    /\ (pc # "done") ~> (pc = "done")
    /\ (pc = "gather") ~> (pc # "gather" /\ InFlight = {})
    /\ [](TimedOut # {} =>
            /\ \A u \in 1..Len(tasks) :
                  /\ tasks[u].kind \in {"none", "list"}
                  /\ tasks[u].pc = "done" /\ u \notin TimedOut /\ tasks[u].evaluated > 0
                     /\ tasks[u].logged = "success" => tasks[u].list = tasks[u].accepted
            /\ pc # "gather" =>
                  /\ InFlight = {}
                  /\ EndsWith(articles, Returns(tasks)))

\* A batch of two is over and the run has gone on: one fetch timed out, the
\* other returned an article, which is in the output.
C16_Witness ==
    /\ pc \in {"sleep", "loop", "done"}
    /\ Len(tasks) = 2
    /\ \E t \in TimedOut, u \in Parsed :
          /\ tasks[u].list # <<>>
          /\ EndsWith(articles, tasks[u].list)

\* The text of the first of the fields content, summary, description that
\* the entry has; the text of a content list is that of its first item, and
\* the empty text when it has none.
FirstPresentText(entry) ==
    IF entry.content.present
    THEN IF entry.content.items # <<>> THEN entry.content.items[1] ELSE <<>>
    ELSE IF entry.summary.present THEN entry.summary.value
    ELSE IF entry.description.present THEN entry.description.value
    ELSE <<>>

(***************************************************************************)
(* C17 as stated.  extract_content returns the text (tags stripped,        *)
(* trimmed) of the first of the fields content, summary, description that  *)
(* the entry has, never that of a later field, and the empty text when it  *)
(* has none; whatever fields are present, absent or empty, it returns a    *)
(* text and does not raise.                                                *)
(***************************************************************************)
C17_ExtractReturnsFirstPresentField ==
    \A t \in 1..Len(tasks) :
       \A k \in 1..tasks[t].evaluated :
          LET entry == tasks[t].doc[k]
          IN  /\ ~ExtractContent(entry).raised
              /\ ExtractContent(entry).value
                    = Strip(StripTags(FirstPresentText(entry)))

\* Entry k of the document qualifies: long enough, and no duplicate.
Qualifies(doc, store, k) ==
    \E a \in 1..Len(QualifyingEntries(doc, store)) :
       QualifyingEntries(doc, store)[a] = k

(***************************************************************************)
(* C18.  A missing or malformed published date never surfaces as an error: *)
(* parse_date returns the parsed time when the field is well formed and    *)
(* the current time otherwise, so an evaluated entry that passes the       *)
(* length and the duplicate filter is accepted whatever its date field,    *)
(* and a bad date never empties the result of its feed.                    *)
(***************************************************************************)
C18_BadDateNeverFaults ==
    [][\A t \in DOMAIN tasks :
          (pc = "gather" /\ tasks[t].pc = "text" /\ tasks'[t].pc = "done") =>
             LET task == tasks'[t]
             IN  /\ \A k \in 1..Len(task.doc) : ~ParseDate(task.doc[k]).raised
                 /\ \A a \in 1..Len(task.accepted) :
                       task.accepted[a].published =
                          IF task.doc[task.accepted[a].url[2]].published_parsed
                                = "wellformed"
                          THEN "parsed" ELSE "now"
                 /\ \A k \in 1..task.evaluated :
                       Qualifies(task.doc, db, k) => AcceptedAt(task, k)
                 /\ task.evaluated > 0 /\ SkippedOrQualifying(task.doc) =>
                       /\ task.logged = "success"
                       /\ task.list = task.accepted
      ]_vars

\* A fetch returned an article made from an entry with a malformed date; the
\* article carries the current time.
C18_Witness ==
    \E t \in Parsed :
       /\ tasks[t].logged = "success"
       /\ \E a \in 1..Len(tasks[t].list) :
             /\ tasks[t].doc[tasks[t].list[a].url[2]].published_parsed = "malformed"
             /\ tasks[t].list[a].published = "now"

(***************************************************************************)
(* C19 as stated.  At the end of a run, every hash the run added to the    *)
(* store is the hash of an article of the run's output: no hash is cached  *)
(* for an article that is dropped, also when a fault occurs after entries  *)
(* of the document were accepted and cached.                               *)
(***************************************************************************)
C19_RecordedHashesInOutput ==
    pc = "done" => (db \ db_start) \subseteq Hashes(articles)

\* The fetches that have issued their request and are not over.
Running == {t \in 1..Len(tasks) : tasks[t].pc \in {"get", "text"}}

(***************************************************************************)
(* C20.  In every reachable state, with batch_size >= 1, the number of     *)
(* fetch_single_feed calls in flight is at most batch_size.                *)
(***************************************************************************)
C20_InFlightBounded ==
    /\ batch_size >= 1
    /\ Len(tasks) <= batch_size
    /\ Cardinality(InFlight) <= batch_size
    /\ Cardinality(Running) <= batch_size
    /\ Running \subseteq InFlight

\* Three feeds in batches of two: the two fetches of the first batch are
\* both awaiting their answers while the third feed waits for its batch.
C20_Witness ==
    /\ Len(feeds) = 3 /\ batch_size = 2
    /\ i = 0 /\ pc = "gather"
    /\ Cardinality(Running) = batch_size
    /\ \E t, u \in Running : tasks[t].pc = "get" /\ tasks[u].pc = "text"

====
